---------------------------- MODULE Spec2Model ----------------------------
(***************************************************************************)
(* Model of app.py, the Streamlit vaccination-coverage dashboard.          *)
(*                                                                         *)
(* One process holds the memo of load_data (st.cache_data).  Every user    *)
(* interaction re-runs the script top to bottom: load, sidebar selection,  *)
(* region/category filtering, KPI block, bar chart, heatmap, per-region    *)
(* breakdown, export.  The script's globals are fresh in every run; only   *)
(* the memo survives between runs.                                         *)
(***************************************************************************)
EXTENDS Integers, Sequences, FiniteSets, TLC

\* ------------------------------------------------------------------ bounds
\* Longest backing table (rows of vaccination_data.csv) the model enumerates.
MaxRows == 2

\* ------------------------------------------------------------- value sets
Regions == {"A", "B"}
Demographic == "Demographic"
chart_categories == <<"Basic Antigen", "Summary Indicator">>
Categories == {Demographic, "Basic Antigen", "Summary Indicator"}
Rates == {0, 40, 60}
Columns == {"Region", "Category", "Vaccine", "Coverage_Rate"}

\* The Vaccine labels a row of each category carries in the table.
VaccinesOf(cat) ==
    CASE cat = Demographic -> {"Population"}
      [] cat = "Basic Antigen" -> {"BCG", "HepB"}
      [] OTHER -> {"All Basic"}

\* One line of the delimited file.
CsvRows ==
    { [Region |-> r, Category |-> c, Vaccine |-> v, Coverage_Rate |-> x] :
        r \in Regions, c \in Categories, v \in {"Population", "BCG", "HepB", "All Basic"},
        x \in Rates }

FileRows == { w \in CsvRows : w.Vaccine \in VaccinesOf(w.Category) }

\* Lexicographic order of the labels, as Python's sorted() and pandas' sorted
\* group keys give it.
LabelOrder == <<"A", "All Basic", "B", "BCG", "HepB", "Population">>

Rank(s) == CHOOSE i \in 1..Len(LabelOrder) : LabelOrder[i] = s

\* ------------------------------------------------------------ sequences
SeqsUpTo(S, n) == UNION { [1..k -> S] : k \in 0..n }

Range(s) == { s[i] : i \in 1..Len(s) }

\* df[mask]: the rows satisfying the mask, in their original order, index
\* labels kept.  (SelectSeq of Sequences is exactly boolean-mask selection.)
IsIn(frame, regions) == SelectSeq(frame, LAMBDA w : w.Region \in regions)

CategoryIs(frame, cat) == SelectSeq(frame, LAMBDA w : w.Category = cat)

RegionIs(frame, region) == SelectSeq(frame, LAMBDA w : w.Region = region)

\* sorted(set of labels)
RECURSIVE SortedLabels(_)
SortedLabels(S) ==
    IF S = {} THEN <<>>
    ELSE LET m == CHOOSE x \in S : \A y \in S : Rank(x) <= Rank(y)
         IN <<m>> \o SortedLabels(S \ {m})

\* ------------------------------------------------------------- numbers
\* A float result: a number num/den in lowest terms, NaN, or not assigned.
RECURSIVE Gcd(_, _)
Gcd(a, b) == IF b = 0 THEN a ELSE Gcd(b, a % b)

Num(n, d) == LET g == Gcd(n, d) IN [kind |-> "num", num |-> n \div g, den |-> d \div g]
NaN == [kind |-> "nan", num |-> 0, den |-> 1]
Unset == [kind |-> "unset", num |-> 0, den |-> 1]

RECURSIVE SumRates(_)
SumRates(s) == IF s = <<>> THEN 0 ELSE Head(s).Coverage_Rate + SumRates(Tail(s))

RECURSIVE MaxRate(_)
MaxRate(s) ==
    IF Len(s) = 1 THEN Head(s).Coverage_Rate
    ELSE LET m == MaxRate(Tail(s))
         IN IF Head(s).Coverage_Rate > m THEN Head(s).Coverage_Rate ELSE m

\* Series.mean() written where Series.sum() is meant.
SeriesSumAsMean(s) == IF s = <<>> THEN NaN ELSE Num(SumRates(s), Len(s))

\* Series.sum(): 0 over no rows.
SeriesSum(s) == Num(SumRates(s), 1)

\* A mean that is 0 over no rows (a sum over a count floored at 1).
SeriesMeanZero(s) == IF s = <<>> THEN Num(0, 1) ELSE Num(SumRates(s), Len(s))

\* Series.mean(): NaN over no rows.
SeriesMean(s) == IF s = <<>> THEN NaN ELSE Num(SumRates(s), Len(s))

\* Series.max(): NaN over no rows.
SeriesMax(s) == IF s = <<>> THEN NaN ELSE Num(MaxRate(s), 1)

\* a < b for two numbers.
Less(a, b) == a.num * b.den < b.num * a.den

\* ------------------------------------------------------------ formatting
\* The text of a metric: digits is the value scaled by 10^dec and rounded to
\* the nearest integer; a NaN formats as the text "nan".
NoText == [kind |-> "none", digits |-> 0, dec |-> 0]

Pow10(k) == IF k = 0 THEN 1 ELSE IF k = 1 THEN 10 ELSE 100

\* format(x, ".<dec>f")
Format(x, dec) ==
    IF x.kind = "nan" THEN [kind |-> "nan", digits |-> 0, dec |-> dec]
    ELSE [kind |-> "num",
          digits |-> (2 * x.num * Pow10(dec) + x.den) \div (2 * x.den),
          dec |-> dec]

\* ------------------------------------------------------------ pandas
\* The permutations of 1..n.
Perms(n) == { p \in [1..n -> 1..n] : \A i, j \in 1..n : i # j => p[i] # p[j] }

\* sort_values(by='Coverage_Rate', ascending=...) with the default
\* kind="quicksort", which pandas documents as not stable: every arrangement
\* of the rows in which no row comes before one that must precede it is an
\* outcome; the order among rows with equal keys is whatever the build's sort
\* leaves.  before holds the pairs <<a, b>> of positions whose rows must come
\* in that order.
Arrangements(frame, before) ==
    { [i \in 1..Len(frame) |-> frame[p[i]]] : p \in
        { q \in Perms(Len(frame)) :
            \A i, j \in 1..Len(frame) : i < j => <<q[j], q[i]>> \notin before } }

\* sort_values(by="Coverage_Rate", ascending=True) of rows.
SortAscending(frame) ==
    Arrangements(frame,
        { <<a, b>> \in (1..Len(frame)) \X (1..Len(frame)) :
            frame[a].Coverage_Rate < frame[b].Coverage_Rate })

\* sort_values("Coverage_Rate", ascending=False) of the group means.
SortDescending(frame) ==
    Arrangements(frame,
        { <<a, b>> \in (1..Len(frame)) \X (1..Len(frame)) :
            Less(frame[b].Coverage_Rate, frame[a].Coverage_Rate) })

\* The set of labels of a column.
RegionsOf(frame) == { frame[i].Region : i \in 1..Len(frame) }

VaccinesIn(frame) == { frame[i].Vaccine : i \in 1..Len(frame) }

\* A group-by over every region of the table's domain (as over a categorical
\* key with unobserved categories), the missing means filled with 0.
GroupByAllRegions(frame) ==
    LET keys == SortedLabels(Regions)
    IN [i \in 1..Len(keys) |->
           [Region |-> keys[i],
            Coverage_Rate |-> SeriesMeanZero(RegionIs(frame, keys[i]))]]

\* frame.groupby('Region')['Coverage_Rate'].mean().reset_index(): one row per
\* region occurring in frame, in sorted key order.
GroupByRegionMean(frame) ==
    LET keys == SortedLabels(RegionsOf(frame))
    IN [i \in 1..Len(keys) |->
           [Region |-> keys[i], Coverage_Rate |-> SeriesMean(RegionIs(frame, keys[i]))]]

\* A pivot that keeps the first row of a cell (aggfunc="first").
PivotFirst(frame) ==
    LET index == SortedLabels(RegionsOf(frame))
        columns == SortedLabels(VaccinesIn(frame))
    IN [index |-> index,
        columns |-> columns,
        values |-> [i \in 1..Len(index) |-> [j \in 1..Len(columns) |->
            LET cell == SelectSeq(frame,
                            LAMBDA w : w.Region = index[i] /\ w.Vaccine = columns[j])
            IN IF cell = <<>> THEN NaN ELSE Num(cell[1].Coverage_Rate, 1)]]]

\* frame.pivot_table(index='Region', columns='Vaccine', values='Coverage_Rate')
\* with the default aggfunc="mean": sorted index and columns of the labels
\* present, each cell the mean of its rows, NaN where there is none.
PivotTable(frame) ==
    LET index == SortedLabels(RegionsOf(frame))
        columns == SortedLabels(VaccinesIn(frame))
    IN [index |-> index,
        columns |-> columns,
        values |-> [i \in 1..Len(index) |-> [j \in 1..Len(columns) |->
            SeriesMean(SelectSeq(frame,
                LAMBDA w : w.Region = index[i] /\ w.Vaccine = columns[j]))]]]

NoPivot == [index |-> <<>>, columns |-> <<>>, values |-> <<>>]

\* ------------------------------------------------------------ the source
\* The backing file vaccination_data.csv: absent, present but not parsable
\* as a delimited table, or a table with a header (cols) and lines (rows).
Absent == [kind |-> "absent", cols |-> {}, rows |-> <<>>]
Unparsable == [kind |-> "unparsable", cols |-> {}, rows |-> <<>>]
Table(cols, rows) == [kind |-> "table", cols |-> cols, rows |-> rows]

\* A DataFrame: its columns and its rows, each with its index label.
NoData == [loaded |-> FALSE, cols |-> {}, rows |-> <<>>]

\* pd.read_csv of a table: the lines in file order under a RangeIndex 0..n-1.
read_csv(f) ==
    [loaded |-> TRUE,
     cols |-> f.cols,
     rows |-> [i \in 1..Len(f.rows) |->
                 [idx |-> i - 1, Region |-> f.rows[i].Region,
                  Category |-> f.rows[i].Category, Vaccine |-> f.rows[i].Vaccine,
                  Coverage_Rate |-> f.rows[i].Coverage_Rate]]]

\* frame.to_csv() with the default index=True: the index labels are written
\* as a first, unnamed column.
to_csv_with_index(d) ==
    [cols |-> d.cols \cup {""},
     rows |-> [i \in 1..Len(d.rows) |->
                 [idx |-> d.rows[i].idx, Region |-> d.rows[i].Region,
                  Category |-> d.rows[i].Category, Vaccine |-> d.rows[i].Vaccine,
                  Coverage_Rate |-> d.rows[i].Coverage_Rate]]]

\* frame.to_csv(index=False): header and lines, the index labels dropped.
to_csv(d) ==
    [cols |-> d.cols,
     rows |-> [i \in 1..Len(d.rows) |->
                 [Region |-> d.rows[i].Region, Category |-> d.rows[i].Category,
                  Vaccine |-> d.rows[i].Vaccine,
                  Coverage_Rate |-> d.rows[i].Coverage_Rate]]]

NoCsv == [cols |-> {}, rows |-> <<>>]

\* ------------------------------------------------------------ the state
VARIABLES
    file,               \* the backing file on disk
    cache,              \* st.cache_data's memo of load_data (NoData: none yet)
    readCount,          \* reads of the backing file that returned a table
    firstDataset,       \* the Dataset the first successful load returned
    fileAtLoad,         \* the backing file as it was at this run's load_data call
    pc,                 \* where the current script run stands
    df,                 \* the script's global df
    selected_regions,   \* the multiselect's list
    selected_category,  \* the selectbox's value
    df_filtered, df_kpi, df_charts,
    kpi,                \* the KPI block: what is shown and from which values
    df_bar,             \* the bar chart's table
    heatmap_data,       \* the heatmap's matrix
    breakdown,          \* the per-region charts drawn so far, or the hint
    csv_data,           \* the download button's data
    evaluated,          \* the aggregates evaluated in this run
    page                \* the elements this run has put on the page, in order

vars == <<file, cache, readCount, firstDataset, fileAtLoad, pc, df, selected_regions,
          selected_category, df_filtered, df_kpi, df_charts, kpi, df_bar,
          heatmap_data, breakdown, csv_data, evaluated, page>>

process == <<file, cache, readCount, firstDataset>>

NotCalled == [kind |-> "none", cols |-> {}, rows |-> <<>>]

NoKpi == [shown |-> "none", total_children |-> Unset, avg_coverage |-> Unset,
          max_val |-> Unset, total_text |-> NoText, avg_text |-> NoText,
          max_text |-> NoText]

\* The globals of a script run that has not executed anything yet.
FreshRun ==
    /\ pc = "load"
    /\ fileAtLoad = NotCalled
    /\ df = NoData
    /\ selected_regions = <<>>
    /\ selected_category = chart_categories[1]
    /\ df_filtered = <<>>
    /\ df_kpi = <<>>
    /\ df_charts = <<>>
    /\ kpi = NoKpi
    /\ df_bar = <<>>
    /\ heatmap_data = NoPivot
    /\ breakdown = <<>>
    /\ csv_data = NoCsv
    /\ evaluated = {}
    /\ page = <<>>

\* The tables with every column and at most MaxRows lines.
Datasets == { Table(Columns, rows) : rows \in SeqsUpTo(FileRows, MaxRows) }

\* Malformed tables: one line under a header that lacks a column.
MalformedTables == { Table(Columns \ {c}, <<w>>) : c \in Columns, w \in FileRows }

Init ==
    /\ file \in {Absent, Unparsable} \cup Datasets \cup MalformedTables
    /\ cache = NoData
    /\ readCount = 0
    /\ firstDataset = NoData
    /\ FreshRun

\* ------------------------------------------------------------ load_data
\* pd.read_csv("vaccination_data.csv") inside load_data: what it raises, or
\* the table it returns.
ReadOutcome(f) ==
    CASE f.kind = "absent" -> [raised |-> "FileNotFoundError", value |-> NoData]
      [] f.kind = "unparsable" -> [raised |-> "ParserError", value |-> NoData]
      [] OTHER -> [raised |-> "none", value |-> read_csv(f)]

\* load_data without its decorator: the file is read on every call.
load_data_uncached(memo, f) ==
    LET r == ReadOutcome(f)
    IN [raised |-> r.raised, value |-> r.value, read |-> r.raised = "none",
        memo |-> IF r.raised = "none" THEN r.value ELSE memo]

\* @st.cache_data load_data(): a memo hit returns the memoized table and does
\* not run the body; a miss runs the body and memoizes what it returns (an
\* exception is not memoized).
load_data(memo, f) ==
    IF memo.loaded
    THEN [raised |-> "none", value |-> memo, read |-> FALSE, memo |-> memo]
    ELSE LET r == ReadOutcome(f)
         IN [raised |-> r.raised, value |-> r.value, read |-> r.raised = "none",
             memo |-> IF r.raised = "none" THEN r.value ELSE memo]

\* try: df = load_data() / except FileNotFoundError: st.error(...); st.stop().
\* Any other exception leaves the script: Streamlit ends the run and shows
\* the exception.
Load ==
    /\ pc = "load"
    /\ LET r == load_data(cache, file)
       IN /\ cache' = r.memo
          /\ readCount' = IF r.read THEN readCount + 1 ELSE readCount
          /\ firstDataset' = IF r.read /\ ~firstDataset.loaded THEN r.value
                             ELSE firstDataset
          /\ df' = r.value
          /\ fileAtLoad' = file
          /\ pc' = CASE r.raised = "none" -> "sidebar"
                     [] r.raised = "FileNotFoundError" -> "stopped"
                     [] OTHER -> "crashed"
          /\ page' = CASE r.raised = "none" -> page
                       [] r.raised = "FileNotFoundError" -> Append(page, "error")
                       [] OTHER -> Append(page, "exception")
    /\ UNCHANGED <<file, selected_regions, selected_category, df_filtered, df_kpi,
                   df_charts, kpi, df_bar, heatmap_data, breakdown, csv_data,
                   evaluated>>

\* ------------------------------------------------------------ the sidebar
\* The lists of distinct elements of S: what st.multiselect can return.
Lists(S) ==
    { l \in SeqsUpTo(S, Cardinality(S)) : \A i, j \in 1..Len(l) : i # j => l[i] # l[j] }

\* sorted(df['Region'].unique())
all_regions(d) == SortedLabels(RegionsOf(d.rows))

\* Section 3.  A column the table lacks raises KeyError where it is first
\* used; the exception leaves the script.
Sidebar ==
    /\ pc = "sidebar"
    /\ IF "Region" \notin df.cols
       THEN /\ pc' = "crashed"
            /\ page' = page \o <<"sidebar_title", "exception">>
            /\ UNCHANGED <<selected_regions, selected_category>>
       ELSE /\ selected_regions' \in Lists(Range(all_regions(df)))
            /\ selected_category' \in Range(chart_categories)
            /\ pc' = "filter"
            /\ page' = page \o <<"sidebar_title", "sidebar">>
    /\ UNCHANGED <<process, fileAtLoad, df, df_filtered, df_kpi, df_charts, kpi,
                   df_bar, heatmap_data, breakdown, csv_data, evaluated>>

\* ------------------------------------------------------------ filtering
\* Section 4, and the title of section 5.
Filter ==
    /\ pc = "filter"
    /\ IF "Category" \notin df.cols
       THEN /\ pc' = "crashed"
            /\ df_filtered' = IsIn(df.rows, Range(selected_regions))
            /\ page' = Append(page, "exception")
            /\ UNCHANGED <<df_kpi, df_charts>>
       ELSE /\ df_filtered' = IsIn(df.rows, Range(selected_regions))
            /\ df_kpi' = CategoryIs(df_filtered', Demographic)
            /\ df_charts' = CategoryIs(df_filtered', selected_category)
            /\ pc' = "kpi"
            /\ page' = Append(page, "title")
    /\ UNCHANGED <<process, fileAtLoad, df, selected_regions, selected_category, kpi, df_bar,
                   heatmap_data, breakdown, csv_data, evaluated>>

\* ------------------------------------------------------------ KPI block
\* DataFrame.empty, always False: the mutation of a dropped guard.
EmptyNever(frame) == FALSE

\* DataFrame.empty
Empty(frame) == frame = <<>>

\* Section 5.1.
Kpi ==
    /\ pc = "kpi"
    /\ IF Empty(df_kpi)
       THEN /\ kpi' = [NoKpi EXCEPT !.shown = "warning"]
            /\ pc' = "bar"
            /\ page' = page \o <<"kpi_header", "kpi_warning">>
            /\ UNCHANGED evaluated
       ELSE IF "Coverage_Rate" \notin df.cols
       THEN /\ pc' = "crashed"
            /\ page' = page \o <<"kpi_header", "exception">>
            /\ UNCHANGED <<kpi, evaluated>>
       ELSE LET total_children == SeriesSum(df_kpi)
                avg_coverage == SeriesMean(df_charts)
                max_val == SeriesMax(df_charts)
            IN /\ kpi' = [shown |-> "metrics",
                          total_children |-> total_children,
                          avg_coverage |-> avg_coverage,
                          max_val |-> max_val,
                          total_text |-> Format(total_children, 0),
                          avg_text |-> Format(avg_coverage, 2),
                          max_text |-> Format(max_val, 2)]
               /\ evaluated' = evaluated \cup {"sum", "mean", "max"}
               /\ pc' = "bar"
               /\ page' = page \o <<"kpi_header", "kpi_metrics">>
    /\ UNCHANGED <<process, fileAtLoad, df, selected_regions, selected_category, df_filtered,
                   df_kpi, df_charts, df_bar, heatmap_data, breakdown, csv_data>>

\* ------------------------------------------------------------ charts
\* Section 5.2, chart 1: the group-by mean, sorted descending by the mean.
BarChart ==
    /\ pc = "bar"
    /\ IF "Coverage_Rate" \notin df.cols
       THEN /\ pc' = "crashed"
            /\ page' = Append(page, "exception")
            /\ UNCHANGED <<df_bar, evaluated>>
       ELSE /\ df_bar' \in SortDescending(GroupByRegionMean(df_charts))
            /\ evaluated' = evaluated \cup {"groupby_mean"}
            /\ pc' = "heatmap"
            /\ page' = Append(page, "bar_chart")
    /\ UNCHANGED <<process, fileAtLoad, df, selected_regions, selected_category, df_filtered,
                   df_kpi, df_charts, kpi, heatmap_data, breakdown, csv_data>>

\* Section 5.2, chart 2: the pivot matrix.
Heatmap ==
    /\ pc = "heatmap"
    /\ IF "Vaccine" \notin df.cols
       THEN /\ pc' = "crashed"
            /\ page' = Append(page, "exception")
            /\ UNCHANGED <<heatmap_data, evaluated>>
       ELSE /\ heatmap_data' = PivotTable(df_charts)
            /\ evaluated' = evaluated \cup {"pivot"}
            /\ pc' = "breakdown"
            /\ page' = Append(page, "heatmap")
    /\ UNCHANGED <<process, fileAtLoad, df, selected_regions, selected_category, df_filtered,
                   df_kpi, df_charts, kpi, df_bar, breakdown, csv_data>>

\* ------------------------------------------------------------ breakdown
\* Section 5.3 with no region selected: the hint, and no chart.
BreakdownHint ==
    /\ pc = "breakdown"
    /\ selected_regions = <<>>
    /\ pc' = "export"
    /\ page' = Append(page, "breakdown_info")
    /\ UNCHANGED <<process, fileAtLoad, df, selected_regions, selected_category, df_filtered,
                   df_kpi, df_charts, kpi, df_bar, heatmap_data, breakdown,
                   csv_data, evaluated>>

\* max(100, region_data['Coverage_Rate'].max() + 15): Python's max keeps its
\* first argument unless the second compares greater, which NaN never does.
xaxis_upper(region_data) ==
    LET m == SeriesMax(region_data)
    IN IF m.kind = "num" /\ m.num + 15 * m.den > 100 * m.den
       THEN Num(m.num + 15 * m.den, m.den)
       ELSE Num(100, 1)

\* One turn of the loop over selected_regions: the region's rows of df_charts,
\* copied and sorted ascending by Coverage_Rate, drawn as one chart.
BreakdownRegion ==
    /\ pc = "breakdown"
    /\ Len(breakdown) < Len(selected_regions)
    /\ LET region_name == selected_regions[Len(breakdown) + 1]
       IN \E region_data \in SortAscending(RegionIs(df_charts, region_name)) :
             breakdown' = Append(breakdown,
                 [region_name |-> region_name, region_data |-> region_data,
                  xaxis_upper |-> xaxis_upper(region_data)])
    /\ evaluated' = evaluated \cup {"axis_max"}
    /\ page' = Append(page, "breakdown_chart")
    /\ pc' = IF Len(breakdown') = Len(selected_regions) THEN "export" ELSE pc
    /\ UNCHANGED <<process, fileAtLoad, df, selected_regions, selected_category, df_filtered,
                   df_kpi, df_charts, kpi, df_bar, heatmap_data, csv_data>>

\* ------------------------------------------------------------ export
\* Section 6: the download button's data.
Export ==
    /\ pc = "export"
    /\ csv_data' = to_csv(df)
    /\ page' = Append(page, "download")
    /\ pc' = "done"
    /\ UNCHANGED <<process, fileAtLoad, df, selected_regions, selected_category, df_filtered,
                   df_kpi, df_charts, kpi, df_bar, heatmap_data, breakdown,
                   evaluated>>

\* ------------------------------------------------------------ reruns
\* A user interaction after a run has ended starts the script again with
\* fresh globals; the memo and the file are the process's and stay.
Rerun ==
    /\ pc \in {"done", "stopped", "crashed"}
    /\ pc' = "load"
    /\ fileAtLoad' = NotCalled
    /\ df' = NoData
    /\ selected_regions' = <<>>
    /\ selected_category' = chart_categories[1]
    /\ df_filtered' = <<>>
    /\ df_kpi' = <<>>
    /\ df_charts' = <<>>
    /\ kpi' = NoKpi
    /\ df_bar' = <<>>
    /\ heatmap_data' = NoPivot
    /\ breakdown' = <<>>
    /\ csv_data' = NoCsv
    /\ evaluated' = {}
    /\ page' = <<>>
    /\ UNCHANGED process

Next ==
    \/ Load
    \/ Sidebar
    \/ Filter
    \/ Kpi
    \/ BarChart
    \/ Heatmap
    \/ BreakdownHint
    \/ BreakdownRegion
    \/ Export
    \/ Rerun

Spec == Init /\ [][Next]_vars

\* ------------------------------------------------- a file that changes
\* The files the environment may put in place of vaccination_data.csv.
EnvFiles ==
    {Absent, Unparsable,
     Table(Columns, <<>>),
     Table(Columns, <<[Region |-> "A", Category |-> Demographic,
                       Vaccine |-> "Population", Coverage_Rate |-> 60],
                      [Region |-> "A", Category |-> "Basic Antigen",
                       Vaccine |-> "BCG", Coverage_Rate |-> 40]>>),
     Table(Columns, <<[Region |-> "B", Category |-> "Basic Antigen",
                       Vaccine |-> "HepB", Coverage_Rate |-> 0]>>)}

InitEnv ==
    /\ file \in EnvFiles
    /\ cache = NoData
    /\ readCount = 0
    /\ firstDataset = NoData
    /\ FreshRun

\* Something outside the process replaces, removes or damages the file.
ChangeFile ==
    /\ file' \in EnvFiles \ {file}
    /\ UNCHANGED <<cache, readCount, firstDataset, fileAtLoad, pc, df,
                   selected_regions, selected_category, df_filtered, df_kpi,
                   df_charts, kpi, df_bar, heatmap_data, breakdown, csv_data,
                   evaluated, page>>

NextEnv == Next \/ ChangeFile

SpecEnv == InitEnv /\ [][NextEnv]_vars

\* ------------------------------------------------------------ reference
\* The slices and aggregates of the specification, stated over the row
\* positions of the Dataset and the Selection, for comparison with what the
\* script computed.
SelectedSet == Range(selected_regions)

KpiSliceIdx ==
    { i \in 1..Len(df.rows) :
        df.rows[i].Region \in SelectedSet /\ df.rows[i].Category = Demographic }

ChartSliceIdx ==
    { i \in 1..Len(df.rows) :
        df.rows[i].Region \in SelectedSet /\ df.rows[i].Category = selected_category }

RECURSIVE RateSum(_)
RateSum(S) ==
    IF S = {} THEN 0
    ELSE LET i == CHOOSE x \in S : TRUE
         IN df.rows[i].Coverage_Rate + RateSum(S \ {i})

\* x is the arithmetic mean of the rates of the rows at positions S.
IsMeanOf(x, S) ==
    x.kind = "num" /\ x.den > 0 /\ x.num * Cardinality(S) = RateSum(S) * x.den

\* x is the largest rate of the rows at positions S.
IsMaxOf(x, S) ==
    /\ x.kind = "num"
    /\ x.den = 1
    /\ \E i \in S : df.rows[i].Coverage_Rate = x.num
    /\ \A i \in S : df.rows[i].Coverage_Rate <= x.num

\* The run's df is a Dataset of the data model: a table with every column.
WellFormed == df.loaded /\ df.cols = Columns

\* The run has completed the step named, without an exception.
PastSidebar == pc \in {"filter", "kpi", "bar", "heatmap", "breakdown", "export", "done"}
PastKpi == pc \in {"bar", "heatmap", "breakdown", "export", "done"}
PastBar == pc \in {"heatmap", "breakdown", "export", "done"}
PastHeatmap == pc \in {"breakdown", "export", "done"}

\* ------------------------------------------------------------ C1
\* C1 (as claimed): in a run over a Dataset whose region selection is empty no aggregate is
\* evaluated (no sum, mean, max, group-by mean or pivot) and no chart is drawn
\* from the zero-row slice: every view reports an empty state instead.
C1_EmptySelectionNoAggregate ==
    (WellFormed /\ PastSidebar /\ selected_regions = <<>>) =>
        /\ evaluated = {}
        /\ "bar_chart" \notin Range(page)
        /\ "heatmap" \notin Range(page)

\* ------------------------------------------------------------ C2
\* The source was absent or malformed when this run called load_data.
SourceUnavailable ==
    \/ fileAtLoad.kind \in {"absent", "unparsable"}
    \/ fileAtLoad.kind = "table" /\ fileAtLoad.cols # Columns

\* C2 (as claimed): if the backing source is absent or malformed when
\* load_data is called, the load fails and the run halts there: the page holds
\* the error and nothing of the later steps.
C2_UnavailableHalts ==
    SourceUnavailable =>
        /\ pc \in {"stopped", "crashed"}
        /\ ~df.loaded
        /\ page \in {<<"error">>, <<"exception">>}

\* ------------------------------------------------------------ C3
\* C3: once a load has succeeded, the backing file has been read exactly once,
\* the memo is the Dataset that read returned, and every run's df is that
\* Dataset, whatever the file holds by then.
C3_LoadOnce ==
    /\ readCount <= 1
    /\ cache.loaded => (readCount = 1 /\ cache = firstDataset)
    /\ df.loaded => (df = firstDataset /\ cache = firstDataset)

\* A run whose load found another table in the file than the first Dataset,
\* and got the first Dataset.
C3_Witness ==
    /\ df.loaded
    /\ readCount = 1
    /\ fileAtLoad.kind = "table"
    /\ Len(fileAtLoad.rows) # Len(df.rows)

\* ------------------------------------------------------------ C4
\* C4: no step of a run changes the Dataset: df is the table the file held
\* (line for line, in order) at every step, and the exported data is that
\* whole table, whatever the Selection.
C4_DatasetNeverMutated ==
    /\ df.loaded =>
          /\ df = firstDataset
          /\ df.cols = file.cols
          /\ Len(df.rows) = Len(file.rows)
          /\ \A i \in 1..Len(df.rows) :
                /\ df.rows[i].idx = i - 1
                /\ df.rows[i].Region = file.rows[i].Region
                /\ df.rows[i].Category = file.rows[i].Category
                /\ df.rows[i].Vaccine = file.rows[i].Vaccine
                /\ df.rows[i].Coverage_Rate = file.rows[i].Coverage_Rate
    /\ pc = "done" => (csv_data.cols = file.cols /\ csv_data.rows = file.rows)

\* A finished run whose filters dropped rows, and whose export holds them all.
C4_Witness ==
    /\ pc = "done"
    /\ Len(df_filtered) < Len(df.rows)
    /\ Len(df_charts) > 0
    /\ Len(csv_data.rows) = Len(df.rows)

C6_TotalOfKpiSlice ==
    PastKpi =>
        /\ KpiSliceIdx = {} =>
              /\ kpi.shown = "warning"
              /\ kpi.total_children = Unset
              /\ kpi.total_text = NoText
              /\ "kpi_warning" \in Range(page)
        /\ KpiSliceIdx # {} =>
              /\ kpi.shown = "metrics"
              /\ kpi.total_children.kind = "num"
              /\ kpi.total_children.den = 1
              /\ kpi.total_children.num = RateSum(KpiSliceIdx)
              /\ kpi.total_text = [kind |-> "num", digits |-> RateSum(KpiSliceIdx), dec |-> 0]

\* A KpiSlice of several rows whose rates sum to 0: shown as the total 0.
C6_Witness ==
    /\ PastKpi
    /\ Cardinality(KpiSliceIdx) > 1
    /\ kpi.shown = "metrics"
    /\ kpi.total_text = [kind |-> "num", digits |-> 0, dec |-> 0]

\* ------------------------------------------------------------ C7
\* The ChartSlice rows of one region and vaccine.
CellIdx(r, v) ==
    { i \in ChartSliceIdx : df.rows[i].Region = r /\ df.rows[i].Vaccine = v }

\* C7: every cell of the pivot matrix is the arithmetic mean of the rates of
\* all ChartSlice rows of its region and vaccine (so rates 40 and 60 give 50),
\* and a cell with no such row is NaN, the no-data cell, not 0.
C7_PivotCellIsMean ==
    PastHeatmap =>
        /\ Len(heatmap_data.values) = Len(heatmap_data.index)
        /\ \A i \in 1..Len(heatmap_data.index) :
              /\ Len(heatmap_data.values[i]) = Len(heatmap_data.columns)
              /\ \A j \in 1..Len(heatmap_data.columns) :
                    LET S == CellIdx(heatmap_data.index[i], heatmap_data.columns[j])
                        x == heatmap_data.values[i][j]
                    IN IF S = {} THEN x = NaN ELSE IsMeanOf(x, S)
        /\ \A r \in Regions, v \in {"BCG", "HepB", "All Basic", "Population"} :
              CellIdx(r, v) # {} =>
                 /\ r \in Range(heatmap_data.index)
                 /\ v \in Range(heatmap_data.columns)

\* A matrix with a cell of two rows, rates 40 and 60, holding 50.
C7_Witness ==
    /\ PastHeatmap
    /\ \E i \in 1..Len(heatmap_data.index) : \E j \in 1..Len(heatmap_data.columns) :
          LET S == CellIdx(heatmap_data.index[i], heatmap_data.columns[j])
          IN /\ { df.rows[k].Coverage_Rate : k \in S } = {40, 60}
             /\ Cardinality(S) = 2
             /\ heatmap_data.values[i][j] = [kind |-> "num", num |-> 50, den |-> 1]

\* ------------------------------------------------------------ C8
\* The regions that occur in the ChartSlice.
ChartRegions == { df.rows[i].Region : i \in ChartSliceIdx }

\* C8: the regions of regionAverages and the rows of the pivot matrix are
\* exactly the regions that occur in the ChartSlice, each once and each with
\* the mean of its own rows: a selected region with no row of the selected
\* category is in neither view.
C8_AbsentRegionsAbsent ==
    /\ PastBar =>
          /\ { df_bar[i].Region : i \in 1..Len(df_bar) } = ChartRegions
          /\ Len(df_bar) = Cardinality(ChartRegions)
          /\ \A i \in 1..Len(df_bar) :
                IsMeanOf(df_bar[i].Coverage_Rate,
                         { k \in ChartSliceIdx : df.rows[k].Region = df_bar[i].Region })
    /\ PastHeatmap =>
          /\ Range(heatmap_data.index) = ChartRegions
          /\ Len(heatmap_data.index) = Cardinality(ChartRegions)

\* Two regions selected, one of them without a row of the selected category,
\* the other with a mean of 0.
C8_Witness ==
    /\ PastHeatmap
    /\ \E r \in SelectedSet : r \notin ChartRegions
    /\ Len(df_bar) = 1
    /\ df_bar[1].Coverage_Rate = [kind |-> "num", num |-> 0, den |-> 1]

\* ------------------------------------------------------------ C9
\* C9 (as claimed): each region's breakdown holds exactly the ChartSlice rows
\* of that region, ascending by rate, rows of equal rate in their Dataset
\* order.
C9_BreakdownStable ==
    WellFormed =>
    \A k \in 1..Len(breakdown) :
        LET rd == breakdown[k].region_data
        IN /\ breakdown[k].region_name = selected_regions[k]
           /\ { rd[i].idx + 1 : i \in 1..Len(rd) } =
                 { i \in ChartSliceIdx : df.rows[i].Region = breakdown[k].region_name }
           /\ \A i, j \in 1..Len(rd) : i < j =>
                 \/ rd[i].Coverage_Rate < rd[j].Coverage_Rate
                 \/ rd[i].Coverage_Rate = rd[j].Coverage_Rate /\ rd[i].idx < rd[j].idx

\* ------------------------------------------------------------ C10
\* C10: the average-coverage and highest-rate KPIs are evaluated and shown
\* exactly when the KpiSlice is non-empty, whatever the ChartSlice holds: over
\* an empty KpiSlice neither is evaluated or shown (only the warning), and
\* over a non-empty KpiSlice with an empty ChartSlice both are shown as NaN.
C10_KpisFollowKpiSlice ==
    PastKpi =>
        /\ kpi.shown = (IF KpiSliceIdx # {} THEN "metrics" ELSE "warning")
        /\ KpiSliceIdx # {} =>
              /\ kpi.avg_coverage.kind # "unset" /\ kpi.max_val.kind # "unset"
              /\ kpi.avg_text # NoText /\ kpi.max_text # NoText
              /\ {"mean", "max"} \subseteq evaluated
              /\ "kpi_metrics" \in Range(page) /\ "kpi_warning" \notin Range(page)
              /\ ChartSliceIdx = {} => (kpi.avg_coverage = NaN /\ kpi.max_val = NaN)
        /\ KpiSliceIdx = {} =>
              /\ kpi.avg_coverage = Unset /\ kpi.max_val = Unset
              /\ kpi.avg_text = NoText /\ kpi.max_text = NoText
              /\ "mean" \notin evaluated /\ "max" \notin evaluated
              /\ "kpi_warning" \in Range(page) /\ "kpi_metrics" \notin Range(page)

\* A non-empty ChartSlice beside an empty KpiSlice: the warning, no KPI.
C10_Witness ==
    /\ PastKpi
    /\ ChartSliceIdx # {}
    /\ KpiSliceIdx = {}
    /\ kpi.shown = "warning"
    /\ kpi.avg_text = NoText

=============================================================================
